---- MODULE Spec2Model ----
(***************************************************************************)
(* Upload lifecycle of the S3 bucket service: presigned-URL issuance,      *)
(* confirmation, access recording, metadata update and deletion over the   *)
(* two Mongoose collections SoundData and PhotoData.                       *)
(*                                                                         *)
(* Every request handler is an async function; each `await` on the record  *)
(* store or the object store is an interleaving point, so a handler is a   *)
(* sequence of atomic steps and the in-memory document it holds between    *)
(* two steps is kept in its slot of `inflight`.                            *)
(***************************************************************************)
EXTENDS Integers, Sequences, FiniteSets, TLC

\* ---------------------------------------------------------------- bounds
MaxRecords  == 2    \* documents constructed by presigned-url requests
MaxInFlight == 2    \* handlers suspended at an await at the same time
MaxRequests == 3    \* requests of any kind received
MaxExtraAccesses == 1  \* get-by-id and download requests received after
                       \* them
MaxTicks    == 1    \* clock advances
MaxRetentionRequests == 3  \* requests received when every retention
                           \* policy is sent
MaxConfirmRaceRequests == 3  \* requests received when the presigned-url
                             \* requests name the staff member
MaxExtensionRequests == 3  \* requests received when the file names differ
                           \* in their extensions

\* ------------------------------------------------------- optional values
None    == <<>>
Some(x) == <<x>>

\* ------------------------------------------------------ request universes
FileNames       == {<<"rec", "wav">>}
ContentTypes    == {"audio/wav", "image/jpeg", "text/plain"}
VisitIds        == {"v1", ""}       \* "": the field is missing or empty
PatientIds      == {"p1"}
StaffIdInputs   == {None}
PhotoTypeInputs == {None, Some("wound")}
RetentionInputs == {None}

\* request bodies of POST /api/uploads/confirm without the s3Key: one that
\* sends the kind-specific fields, one that omits them, one with fileSize 0
ConfirmInputs ==
  { [fileSize |-> 1, duration |-> Some(7), dimensions |-> Some(<<640, 480>>),
     uploadedBy |-> "u1"],
    [fileSize |-> 2, duration |-> None, dimensions |-> None,
     uploadedBy |-> "u2"],
    [fileSize |-> 0, duration |-> None, dimensions |-> None,
     uploadedBy |-> "u1"] }

\* request bodies of PUT /:id; `classification` is recordingType on the
\* sound route and photoType on the photo route, `unknownKey` tells that the
\* body carries processingStatus: 'pending', a key outside updateSchema
UpdateInputs ==
  { [description |-> Some("d1"), tags |-> Some(<<"t1">>),
     accessLevel |-> Some("private"), classification |-> Some("other"),
     unknownKey |-> FALSE],
    [description |-> None, tags |-> None, accessLevel |-> None,
     classification |-> None, unknownKey |-> TRUE] }

\* ------------------------------------------------------------ configuration
\* S3_CONFIG.allowedFileTypes, as deployed with photo uploads enabled
\* (ALLOWED_FILE_TYPES carries the audio and the image types).
ALLOWED_FILE_TYPES == {"audio/wav", "image/jpeg"}

\* enums of the Mongoose schemas
SoundMimeTypes      == {"audio/wav", "audio/mpeg", "audio/ogg", "audio/webm"}
PhotoMimeTypes      == {"image/jpeg", "image/jpg", "image/png", "image/gif",
                        "image/webp", "image/heic"}
SoundRecordingTypes == {"visit_note", "patient_interview",
                        "medication_reminder", "other"}
PhotoPhotoTypes     == {"wound", "medication", "patient_condition",
                        "vital_signs", "medical_device", "room_condition",
                        "other"}
SoundRetentionPolicies == {"7_days", "30_days", "1_year", "7_years",
                           "permanent"}
PhotoRetentionPolicies == {"30_days", "1_year", "7_years", "permanent"}

\* enums of the Joi request schemas
JoiPhotoTypes == {"wound", "skin_condition", "medication", "patient_id",
                  "general", "other"}
JoiRetentionPolicies == {"7_days", "30_days", "1_year", "7_years",
                         "permanent"}

\* Dates are counted in whole seconds: the millisecond values of seven years
\* exceed the 32-bit integers of the checker, and the generated file name
\* keeps the second of the issuance instant.
DaySeconds == 24 * 60 * 60

VARIABLES
  SoundData,     \* collection: _id -> document
  PhotoData,     \* collection: _id -> document
  inflight,      \* slot -> handler suspended at an await (or Idle)
  now,           \* Date.now(), in seconds
  nextId,        \* next ObjectId
  lastResp,      \* the response sent by the step just taken (or NoResp)
  deleted,       \* records removed by findByIdAndDelete: id, s3Key and
                 \* whether deleteFile had removed the object
  accessDone,    \* _id -> recordAccess() calls whose save resolved
  started        \* requests received so far

vars == <<SoundData, PhotoData, inflight, now, nextId, lastResp, deleted,
          accessDone, started>>

Slots == 1..MaxInFlight
Ids   == 1..MaxRecords
Idle  == [op |-> "idle"]
Collections == {"sound", "photo"}

FreeSlots == {s \in Slots : inflight[s].op = "idle"}

\* a handler that suspends takes the lowest idle slot
Free(s) == s \in FreeSlots /\ \A g \in FreeSlots : s <= g

\* a request is received while the budget of requests lasts
Start == started < MaxRequests /\ started' = started + 1

\* a get-by-id or download request is received
StartAccess ==
  /\ started < MaxRequests + MaxExtraAccesses
  /\ started' = started + 1

NoResp == [op |-> "none", status |-> 0]

Respond(r) == lastResp' = r

Silent == lastResp' = NoResp

\* x || y of JavaScript for an optional string x
OrElse(x, y) == IF x = None THEN y ELSE x[1]

Last(seq) == seq[Len(seq)]

\* Joi: an .optional() key restricted by .valid(...)
OptionalIn(x, S) == IF x = None THEN TRUE ELSE x[1] \in S

\* ------------------------------------------------------------ collections
\* an insert that is acknowledged and not stored
Put_Discard(coll, doc) == coll

\* insertOne(doc)
Put(coll, doc) == [i \in (DOMAIN coll) \cup {doc._id} |->
                     IF i = doc._id THEN doc ELSE coll[i]]

Remove(coll, id) == [i \in (DOMAIN coll) \ {id} |-> coll[i]]

Keys(coll) == {coll[i].s3Key : i \in DOMAIN coll}

Coll(c) == IF c = "sound" THEN SoundData ELSE PhotoData

SetColl(c, new) ==
  /\ SoundData' = IF c = "sound" THEN new ELSE SoundData
  /\ PhotoData' = IF c = "sound" THEN PhotoData ELSE new

\* findOne with a filter that names no path of the schema: any document
findOne_AnyDocument(coll, key) ==
  IF DOMAIN coll = {} THEN None
  ELSE Some(coll[CHOOSE i \in DOMAIN coll : TRUE])

\* Model.findOne({ s3Key }): the document holding the key, or None
findOne(coll, key) ==
  LET hits == {i \in DOMAIN coll : coll[i].s3Key = key}
  IN  IF hits = {} THEN None ELSE Some(coll[CHOOSE i \in hits : TRUE])

\* a path parameter that is no ObjectId ('invalid-id'): casting it throws
MalformedId == 0

\* the :id path parameters clients send
RequestIds == Ids \cup {MalformedId}

\* Model.findById(id) that falls back to the first document of the store
findById_FirstDocument(coll, id) ==
  IF id \in DOMAIN coll THEN Some(coll[id])
  ELSE IF DOMAIN coll # {} THEN Some(coll[CHOOSE i \in DOMAIN coll : TRUE])
  ELSE None

\* Model.findById(id)
findById(coll, id) == IF id \in DOMAIN coll THEN Some(coll[id]) ELSE None

\* a collection without the unique index
UniqueIndexOk_NoIndex(coll, doc) == TRUE

\* the unique index on s3Key of one collection
UniqueIndexOk(coll, doc) == doc.s3Key \notin Keys(coll)

\* save() that writes the whole in-memory document back
Modified_AllPaths(doc, assigned) ==
  [f \in DOMAIN doc |-> IF f \in DOMAIN assigned THEN assigned[f] ELSE doc[f]]

\* Mongoose tracks the paths assigned a value different from the one read;
\* save() of a loaded document sends $set of exactly those paths.
Modified(doc, assigned) ==
  [f \in {g \in DOMAIN assigned : assigned[g] # doc[g]} |-> assigned[f]]

\* the document after the update { $set: set }
ApplySet(doc, set) ==
  [f \in DOMAIN doc |-> IF f \in DOMAIN set THEN set[f] ELSE doc[f]]

\* updateMany({}, { $set }): every stored document receives the $set
SaveExisting_UpdateMany(coll, id, set) ==
  [i \in DOMAIN coll |-> ApplySet(coll[i], set)]

\* updateOne({ _id }, { $set }): the stored document keeps every path the
\* $set does not name
SaveExisting(coll, id, set) == [coll EXCEPT ![id] = ApplySet(coll[id], set)]

\* ------------------------------------------------------------ upload route
PresignBodies ==
  {[fileName |-> fn, contentType |-> ct, visitId |-> v, patientId |-> p,
    staffId |-> st, recordingType |-> None, photoType |-> pt,
    retentionPolicy |-> rp, description |-> None] :
     fn \in FileNames, ct \in ContentTypes, v \in VisitIds, p \in PatientIds,
     st \in StaffIdInputs, pt \in PhotoTypeInputs, rp \in RetentionInputs}

\* presignedUrlSchema without .valid(...ALLOWED_FILE_TYPES)
presignedUrlSchema_AnyContentType(body) ==
  /\ Len(body.fileName) >= 1
  /\ body.visitId # ""
  /\ body.patientId # ""
  /\ OptionalIn(body.photoType, JoiPhotoTypes)
  /\ OptionalIn(body.retentionPolicy, JoiRetentionPolicies)

presignedUrlSchema(body) ==
  /\ Len(body.fileName) >= 1
  /\ body.contentType \in ALLOWED_FILE_TYPES
  /\ body.visitId # ""
  /\ body.patientId # ""
  /\ OptionalIn(body.photoType, JoiPhotoTypes)
  /\ OptionalIn(body.retentionPolicy, JoiRetentionPolicies)

\* contentType.startsWith('audio/')
isAudio(contentType) == contentType \in {"audio/wav"}

\* dateStr and timeStr of the generated file name: the second of t
timeStr(t) == t

\* `${folder}/${visitId}/visit_${fileType}_${dateStr}_${timeStr}.${ext}`
s3Key(audio, visitId, t, fileName) ==
  << IF audio THEN "audio_recordings" ELSE "photos",
     visitId,
     IF audio THEN "audio" ELSE "photo",
     timeStr(t),
     Last(fileName) >>

\* newSoundData with the status left to a later processing stage
newSoundData_NotPending(id, body, t) ==
  [ _id              |-> id,
    s3Key            |-> s3Key(TRUE, body.visitId, t, body.fileName),
    mimeType         |-> body.contentType,
    visitId          |-> body.visitId,
    patientId        |-> body.patientId,
    fileSize         |-> 0,
    duration         |-> None,
    recordingType    |-> OrElse(body.recordingType, "visit_note"),
    description      |-> body.description,
    tags             |-> << >>,
    accessLevel      |-> "staff_only",
    processingStatus |-> "processing",
    uploadedBy       |-> OrElse(body.staffId, "unknown"),
    uploadedAt       |-> t,
    lastAccessedAt   |-> t,
    accessCount      |-> 0,
    retentionPolicy  |-> OrElse(body.retentionPolicy, "7_years"),
    expiresAt        |-> None ]

\* new SoundData({...}) of the presigned-url handler
newSoundData(id, body, t) ==
  [ _id              |-> id,
    s3Key            |-> s3Key(TRUE, body.visitId, t, body.fileName),
    mimeType         |-> body.contentType,
    visitId          |-> body.visitId,
    patientId        |-> body.patientId,
    fileSize         |-> 0,
    duration         |-> None,
    recordingType    |-> OrElse(body.recordingType, "visit_note"),
    description      |-> body.description,
    tags             |-> << >>,
    accessLevel      |-> "staff_only",
    processingStatus |-> "pending",
    uploadedBy       |-> OrElse(body.staffId, "unknown"),
    uploadedAt       |-> t,
    lastAccessedAt   |-> t,
    accessCount      |-> 0,
    retentionPolicy  |-> OrElse(body.retentionPolicy, "7_years"),
    expiresAt        |-> None ]

\* new PhotoData({...}) of the presigned-url handler
newPhotoData(id, body, t) ==
  [ _id              |-> id,
    s3Key            |-> s3Key(FALSE, body.visitId, t, body.fileName),
    mimeType         |-> body.contentType,
    visitId          |-> body.visitId,
    patientId        |-> body.patientId,
    fileSize         |-> 0,
    dimensions       |-> None,
    photoType        |-> OrElse(body.photoType, "general"),
    description      |-> body.description,
    tags             |-> << >>,
    accessLevel      |-> "staff_only",
    processingStatus |-> "pending",
    uploadedBy       |-> OrElse(body.staffId, "unknown"),
    uploadedAt       |-> t,
    lastAccessedAt   |-> t,
    accessCount      |-> 0,
    retentionPolicy  |-> OrElse(body.retentionPolicy, "7_years"),
    expiresAt        |-> None ]

\* schema validation run by save() on a new document
soundDataSchema(doc) ==
  /\ doc.mimeType \in SoundMimeTypes
  /\ doc.recordingType \in SoundRecordingTypes
  /\ doc.retentionPolicy \in SoundRetentionPolicies
  /\ doc.fileSize >= 0
  /\ doc.accessCount >= 0

photoDataSchema(doc) ==
  /\ doc.mimeType \in PhotoMimeTypes
  /\ doc.photoType \in PhotoPhotoTypes
  /\ doc.retentionPolicy \in PhotoRetentionPolicies
  /\ doc.fileSize >= 0
  /\ doc.accessCount >= 0

\* pre('save') hooks: expiresAt from the retention policy, new documents only
soundPreSave(doc, t) ==
  IF doc.expiresAt = None /\ doc.retentionPolicy # "permanent"
  THEN [doc EXCEPT !.expiresAt =
          CASE doc.retentionPolicy = "7_days"  -> Some(t + 7 * DaySeconds)
            [] doc.retentionPolicy = "30_days" -> Some(t + 30 * DaySeconds)
            [] doc.retentionPolicy = "1_year"  -> Some(t + 365 * DaySeconds)
            [] doc.retentionPolicy = "7_years" ->
                 Some(t + 7 * 365 * DaySeconds)
            [] OTHER -> None]
  ELSE doc

photoPreSave(doc, t) ==
  IF doc.expiresAt = None /\ doc.retentionPolicy # "permanent"
  THEN [doc EXCEPT !.expiresAt =
          CASE doc.retentionPolicy = "30_days" -> Some(t + 30 * DaySeconds)
            [] doc.retentionPolicy = "1_year"  -> Some(t + 365 * DaySeconds)
            [] doc.retentionPolicy = "7_years" ->
                 Some(t + 7 * 365 * DaySeconds)
            [] OTHER -> None]
  ELSE doc

\* a hook that computes expiresAt on every save()
preSave_EverySave(c, doc, isNew, t) ==
  IF c = "sound" THEN soundPreSave([doc EXCEPT !.expiresAt = None], t)
                 ELSE photoPreSave([doc EXCEPT !.expiresAt = None], t)

\* the pre('save') hook of the model of collection c, run by every save():
\* `if (this.isNew && ...)` leaves a loaded document as it is
preSave(c, doc, isNew, t) ==
  IF isNew THEN IF c = "sound" THEN soundPreSave(doc, t)
                               ELSE photoPreSave(doc, t)
           ELSE doc

\* the $set of save() of a loaded document: the paths the handler modified
\* and the expiresAt of the hook if the hook modified it
LoadedSet(c, doc, set, t) ==
  LET hook == Modified(doc, [expiresAt |-> preSave(c, doc, FALSE, t).expiresAt])
  IN  [f \in DOMAIN set \cup DOMAIN hook |->
         IF f \in DOMAIN hook THEN hook[f] ELSE set[f]]

Init ==
  /\ SoundData = << >>
  /\ PhotoData = << >>
  /\ inflight = [s \in Slots |-> Idle]
  /\ now = 0
  /\ nextId = 1
  /\ lastResp = NoResp
  /\ deleted = {}
  /\ accessDone = [i \in Ids |-> 0]
  /\ started = 0

\* the clock advances
Tick ==
  /\ now < MaxTicks
  /\ now' = now + 1
  /\ Silent
  /\ UNCHANGED <<SoundData, PhotoData, inflight, nextId, deleted, accessDone,
                 started>>

\* POST /api/uploads/presigned-url, rejected by presignedUrlSchema
PresignedUrlInvalid ==
  \E body \in PresignBodies :
    /\ ~presignedUrlSchema(body)
    /\ Start
    /\ Respond([op |-> "presign", status |-> 400])
    /\ UNCHANGED <<SoundData, PhotoData, inflight, now, nextId, deleted,
                   accessDone>>

\* POST /api/uploads/presigned-url up to `await ...save()`: validation, key
\* generation, URL signing and construction of the pending document
PresignedUrlFor(s, body) ==
  /\ Free(s)
  /\ nextId <= MaxRecords
  /\ presignedUrlSchema(body)
  /\ Start
  /\ inflight' = [inflight EXCEPT ![s] =
       [op |-> "presign", body |-> body,
        coll |-> IF isAudio(body.contentType) THEN "sound" ELSE "photo",
        doc |-> IF isAudio(body.contentType)
                THEN newSoundData(nextId, body, now)
                ELSE newPhotoData(nextId, body, now)]]
  /\ nextId' = nextId + 1
  /\ Silent
  /\ UNCHANGED <<SoundData, PhotoData, now, deleted, accessDone>>

PresignedUrl(s) == \E body \in PresignBodies : PresignedUrlFor(s, body)

\* generatePresignedUrl(key, contentType): the signed PUT URL and the
\* public URL of the object
generatePresignedUrl(key, contentType) ==
  [uploadUrl |-> <<"putObject", key, contentType>>, fileUrl |-> key]

\* save() of a new document that skips schema validation
SaveNew_SkipsValidation(c, doc, t) ==
  LET saved == preSave(c, doc, TRUE, t)
  IN  IF UniqueIndexOk(Coll(c), saved) THEN Some(saved) ELSE None

\* the document inserted by save() of a new document, None if save() throws
\* (schema validation, then the pre('save') hook, then the unique index)
SaveNew(c, doc, t) ==
  LET valid == IF c = "sound" THEN soundDataSchema(doc)
                              ELSE photoDataSchema(doc)
      saved == preSave(c, doc, TRUE, t)
  IN  IF valid /\ UniqueIndexOk(Coll(c), saved) THEN Some(saved) ELSE None

\* the awaited save() of the presigned-url handler and its response
PresignedUrlSave(s) ==
  /\ inflight[s].op = "presign"
  /\ LET c     == inflight[s].coll
         saved == SaveNew(c, inflight[s].doc, now)
     IN  IF saved # None
         THEN /\ SetColl(c, Put(Coll(c), saved[1]))
              /\ Respond([op |-> "presign", status |-> 200,
                          dataId |-> saved[1]._id, s3Key |-> saved[1].s3Key,
                          uploadUrl |->
                            generatePresignedUrl(
                              inflight[s].doc.s3Key,
                              inflight[s].body.contentType).uploadUrl,
                          type |-> IF c = "sound" THEN "audio" ELSE "photo",
                          body |-> inflight[s].body])
         ELSE /\ UNCHANGED <<SoundData, PhotoData>>
              /\ Respond([op |-> "presign", status |-> 500])
  /\ inflight' = [inflight EXCEPT ![s] = Idle]
  /\ UNCHANGED <<now, nextId, deleted, accessDone, started>>

\* ------------------------------------------------------------- confirm
uploadConfirmSchema(body) == body.fileSize >= 1

\* confirmSoundAssign that stores the size before validation coerced it
confirmSoundAssign_StaleSize(body, t) ==
  [ fileSize         |-> body.fileSize + 1,
    duration         |-> body.duration,
    uploadedBy       |-> body.uploadedBy,
    processingStatus |-> "completed",
    uploadedAt       |-> t ]

\* the assignments of the confirm handler to a SoundData document
confirmSoundAssign(body, t) ==
  [ fileSize         |-> body.fileSize,
    duration         |-> body.duration,
    uploadedBy       |-> body.uploadedBy,
    processingStatus |-> "completed",
    uploadedAt       |-> t ]

\* confirmPhotoAssign that leaves fileSize to a later write
confirmPhotoAssign_NoSize(body, t) ==
  [ uploadedBy       |-> body.uploadedBy,
    processingStatus |-> "completed",
    uploadedAt       |-> t ]

\* the assignments of the confirm handler to a PhotoData document
confirmPhotoAssign(body, t) ==
  LET base == [ fileSize         |-> body.fileSize,
                uploadedBy       |-> body.uploadedBy,
                processingStatus |-> "completed",
                uploadedAt       |-> t ]
  IN  IF body.dimensions # None
      THEN [f \in DOMAIN base \cup {"dimensions"} |->
              IF f = "dimensions" THEN body.dimensions ELSE base[f]]
      ELSE base

\* a key that no presigned-url request generates
NoSuchKey == <<"audio_recordings", "v1", "audio", -1, "wav">>

\* the keys a client sends: those of stored records, and a made-up one
KnownKeys == Keys(SoundData) \cup Keys(PhotoData) \cup {NoSuchKey}

ConfirmBodies ==
  {[s3Key |-> k, fileSize |-> b.fileSize, duration |-> b.duration,
    dimensions |-> b.dimensions, uploadedBy |-> b.uploadedBy] :
     k \in KnownKeys, b \in ConfirmInputs}

\* POST /api/uploads/confirm, rejected by uploadConfirmSchema
ConfirmInvalid ==
  \E body \in ConfirmBodies :
    /\ ~uploadConfirmSchema(body)
    /\ Start
    /\ Respond([op |-> "confirm", status |-> 400])
    /\ UNCHANGED <<SoundData, PhotoData, inflight, now, nextId, deleted,
                   accessDone>>

\* POST /api/uploads/confirm up to the first await after
\* SoundData.findOne({ s3Key }): a hit is updated in memory and its save()
\* is issued, a miss issues PhotoData.findOne
ConfirmFindSound(s) ==
  \E body \in ConfirmBodies :
    LET soundData == findOne(SoundData, body.s3Key)
    IN  /\ Free(s)
        /\ uploadConfirmSchema(body)
        /\ Start
        /\ inflight' = [inflight EXCEPT ![s] =
             IF soundData # None
             THEN [op |-> "confirm", pc |-> "save", coll |-> "sound",
                   body |-> body, id |-> soundData[1]._id,
                   read |-> soundData[1].processingStatus,
                   doc |-> ApplySet(soundData[1],
                                    confirmSoundAssign(body, now)),
                   set |-> Modified(soundData[1],
                                    confirmSoundAssign(body, now))]
             ELSE [op |-> "confirm", pc |-> "findPhoto", body |-> body]]
        /\ Silent
        /\ UNCHANGED <<SoundData, PhotoData, now, nextId, deleted,
                       accessDone>>

\* the confirm handler resumed after PhotoData.findOne({ s3Key })
ConfirmFindPhoto(s) ==
  /\ inflight[s].op = "confirm"
  /\ inflight[s].pc = "findPhoto"
  /\ LET body      == inflight[s].body
         photoData == findOne(PhotoData, body.s3Key)
     IN  IF photoData = None
         THEN /\ Respond([op |-> "confirm", status |-> 404,
                          s3Key |-> body.s3Key])
              /\ inflight' = [inflight EXCEPT ![s] = Idle]
         ELSE /\ inflight' = [inflight EXCEPT ![s] =
                   [op |-> "confirm", pc |-> "save", coll |-> "photo",
                    body |-> body, id |-> photoData[1]._id,
                    read |-> photoData[1].processingStatus,
                    doc |-> ApplySet(photoData[1],
                                     confirmPhotoAssign(body, now)),
                    set |-> Modified(photoData[1],
                                     confirmPhotoAssign(body, now))]]
              /\ Silent
  /\ UNCHANGED <<SoundData, PhotoData, now, nextId, deleted, accessDone,
                 started>>

\* a confirm handler that answers 409 for a record it read as completed
ConfirmSave_RejectsCompleted(s) ==
  /\ inflight[s].op = "confirm"
  /\ inflight[s].pc = "save"
  /\ LET r == inflight[s]
     IN  IF r.read = "completed"
         THEN /\ UNCHANGED <<SoundData, PhotoData>>
              /\ Respond([op |-> "confirm", status |-> 409,
                          s3Key |-> r.body.s3Key])
         ELSE IF r.id \in DOMAIN Coll(r.coll)
         THEN /\ SetColl(r.coll,
                         SaveExisting(Coll(r.coll), r.id,
                                      LoadedSet(r.coll, r.doc, r.set, now)))
              /\ Respond([op |-> "confirm", status |-> 200,
                          s3Key |-> r.body.s3Key, dataId |-> r.id,
                          type |-> IF r.coll = "sound" THEN "audio"
                                                       ELSE "photo",
                          body |-> r.body, read |-> r.read])
         ELSE /\ UNCHANGED <<SoundData, PhotoData>>
              /\ Respond([op |-> "confirm", status |-> 500,
                          s3Key |-> r.body.s3Key])
  /\ inflight' = [inflight EXCEPT ![s] = Idle]
  /\ UNCHANGED <<now, nextId, deleted, accessDone, started>>

\* the awaited save() of the confirm handler and its response; save() of a
\* document that is no longer stored throws
ConfirmSave(s) ==
  /\ inflight[s].op = "confirm"
  /\ inflight[s].pc = "save"
  /\ LET r == inflight[s]
     IN  IF r.id \in DOMAIN Coll(r.coll)
         THEN /\ SetColl(r.coll,
                         SaveExisting(Coll(r.coll), r.id,
                                      LoadedSet(r.coll, r.doc, r.set, now)))
              /\ Respond([op |-> "confirm", status |-> 200,
                          s3Key |-> r.body.s3Key, dataId |-> r.id,
                          type |-> IF r.coll = "sound" THEN "audio"
                                                       ELSE "photo",
                          body |-> r.body, read |-> r.read])
         ELSE /\ UNCHANGED <<SoundData, PhotoData>>
              /\ Respond([op |-> "confirm", status |-> 500,
                          s3Key |-> r.body.s3Key])
  /\ inflight' = [inflight EXCEPT ![s] = Idle]
  /\ UNCHANGED <<now, nextId, deleted, accessDone, started>>

\* ------------------------------------------------- sound-data, photo-data
\* recordAccess that marks the record accessed instead of counting
recordAccess_SetsOne(doc, t) ==
  [ accessCount    |-> 1,
    lastAccessedAt |-> t ]

\* recordAccess(): the assignments made before save() is issued
recordAccess(doc, t) ==
  [ accessCount    |-> doc.accessCount + 1,
    lastAccessedAt |-> t ]

\* the handler of GET /:id or GET /:id/download suspended at the await of
\* recordAccess(): the document read, updated in memory, and its $set
accessing(op, c, doc, t) ==
  [op |-> op, coll |-> c, id |-> doc._id,
   set |-> Modified(doc, recordAccess(doc, t)),
   doc |-> ApplySet(doc, recordAccess(doc, t))]

\* GET /api/sound-data/:id and GET /api/photo-data/:id up to the await of
\* recordAccess()
GetById(s) ==
  \E c \in Collections, id \in RequestIds :
    LET found == findById(Coll(c), id)
    IN  /\ StartAccess
        /\ IF id = MalformedId
           THEN /\ Respond([op |-> "get", status |-> 500, coll |-> c,
                            id |-> id])
                /\ s = 1
                /\ UNCHANGED inflight
           ELSE IF found = None
           THEN /\ Respond([op |-> "get", status |-> 404, coll |-> c,
                            id |-> id])
                /\ s = 1
                /\ UNCHANGED inflight
           ELSE /\ Free(s)
                /\ inflight' = [inflight EXCEPT ![s] =
                                  accessing("get", c, found[1], now)]
                /\ Silent
        /\ UNCHANGED <<SoundData, PhotoData, now, nextId, deleted,
                       accessDone>>

\* GET /:id/download up to the await of recordAccess(); the download URL is
\* signed for the key of the document read
Download(s) ==
  \E c \in Collections, id \in RequestIds :
    LET found == findById(Coll(c), id)
    IN  /\ StartAccess
        /\ IF id = MalformedId
           THEN /\ Respond([op |-> "download", status |-> 500, coll |-> c,
                            id |-> id])
                /\ s = 1
                /\ UNCHANGED inflight
           ELSE IF found = None
           THEN /\ Respond([op |-> "download", status |-> 404, coll |-> c,
                            id |-> id])
                /\ s = 1
                /\ UNCHANGED inflight
           ELSE /\ Free(s)
                /\ inflight' = [inflight EXCEPT ![s] =
                                  accessing("download", c, found[1], now)]
                /\ Silent
        /\ UNCHANGED <<SoundData, PhotoData, now, nextId, deleted,
                       accessDone>>

\* the save() of recordAccess() as an upsert: a document that is no longer
\* stored is inserted again
AccessSave_Upsert(s) ==
  /\ inflight[s].op \in {"get", "download"}
  /\ LET r == inflight[s]
     IN  /\ IF r.id \in DOMAIN Coll(r.coll)
            THEN /\ SetColl(r.coll,
                            SaveExisting(Coll(r.coll), r.id,
                                         LoadedSet(r.coll, r.doc, r.set,
                                                   now)))
                 /\ accessDone' = [accessDone EXCEPT ![r.id] = @ + 1]
            ELSE /\ SetColl(r.coll, Put(Coll(r.coll), r.doc))
                 /\ UNCHANGED accessDone
         /\ Respond([op |-> r.op, status |-> 200, coll |-> r.coll,
                     id |-> r.id, data |-> r.doc])
  /\ inflight' = [inflight EXCEPT ![s] = Idle]
  /\ UNCHANGED <<now, nextId, deleted, started>>

\* the awaited save() of recordAccess() and the response of the handler
AccessSave(s) ==
  /\ inflight[s].op \in {"get", "download"}
  /\ LET r == inflight[s]
     IN  IF r.id \in DOMAIN Coll(r.coll)
         THEN /\ SetColl(r.coll,
                         SaveExisting(Coll(r.coll), r.id,
                                      LoadedSet(r.coll, r.doc, r.set, now)))
              /\ accessDone' = [accessDone EXCEPT ![r.id] = @ + 1]
              /\ Respond([op |-> r.op, status |-> 200, coll |-> r.coll,
                          id |-> r.id, data |-> r.doc])
         ELSE /\ UNCHANGED <<SoundData, PhotoData, accessDone>>
              /\ Respond([op |-> r.op, status |-> 500, coll |-> r.coll,
                          id |-> r.id])
  /\ inflight' = [inflight EXCEPT ![s] = Idle]
  /\ UNCHANGED <<now, nextId, deleted, started>>

\* updateSchema with .unknown(true)
updateSchema_AllowUnknown(body) == TRUE

\* Joi rejects a key that updateSchema does not name
updateSchema(body) == ~body.unknownKey

\* runValidators: the enum of the classification path of the model
updateValidators(c, body) ==
  OptionalIn(body.classification,
             IF c = "sound" THEN SoundRecordingTypes ELSE PhotoPhotoTypes)

\* an update document that also stamps the editor as uploadedBy
updateSet_StampsEditor(c, body) ==
  LET cls   == IF c = "sound" THEN "recordingType" ELSE "photoType"
      names == {"uploadedBy"}
                 \cup (IF body.description # None THEN {"description"} ELSE {})
                 \cup (IF body.tags # None THEN {"tags"} ELSE {})
                 \cup (IF body.accessLevel # None THEN {"accessLevel"}
                                                  ELSE {})
                 \cup (IF body.classification # None THEN {cls} ELSE {})
  IN  [f \in names |->
         IF f = "description" THEN body.description
         ELSE IF f = "tags" THEN body.tags[1]
         ELSE IF f = "accessLevel" THEN body.accessLevel[1]
         ELSE IF f = "uploadedBy" THEN "editor"
         ELSE body.classification[1]]

\* { ...value }: the paths the request body carries
updateSet(c, body) ==
  LET cls   == IF c = "sound" THEN "recordingType" ELSE "photoType"
      names == (IF body.description # None THEN {"description"} ELSE {})
                 \cup (IF body.tags # None THEN {"tags"} ELSE {})
                 \cup (IF body.accessLevel # None THEN {"accessLevel"}
                                                  ELSE {})
                 \cup (IF body.classification # None THEN {cls} ELSE {})
                 \cup (IF body.unknownKey THEN {"processingStatus"} ELSE {})
  IN  [f \in names |->
         IF f = "description" THEN body.description
         ELSE IF f = "tags" THEN body.tags[1]
         ELSE IF f = "accessLevel" THEN body.accessLevel[1]
         ELSE IF f = "processingStatus" THEN "pending"
         ELSE body.classification[1]]

\* PUT /api/sound-data/:id and PUT /api/photo-data/:id: validation and one
\* findByIdAndUpdate
Update ==
  \E c \in Collections, id \in RequestIds, body \in UpdateInputs :
    /\ Start
    /\ IF ~updateSchema(body)
       THEN /\ Respond([op |-> "update", status |-> 400, coll |-> c,
                        id |-> id, body |-> body])
            /\ UNCHANGED <<SoundData, PhotoData>>
       ELSE IF id = MalformedId \/ ~updateValidators(c, body)
       THEN /\ Respond([op |-> "update", status |-> 500, coll |-> c,
                        id |-> id, body |-> body])
            /\ UNCHANGED <<SoundData, PhotoData>>
       ELSE IF findById(Coll(c), id) = None
       THEN /\ Respond([op |-> "update", status |-> 404, coll |-> c,
                        id |-> id, body |-> body])
            /\ UNCHANGED <<SoundData, PhotoData>>
       ELSE /\ SetColl(c, SaveExisting(Coll(c), id, updateSet(c, body)))
            /\ Respond([op |-> "update", status |-> 200, coll |-> c,
                        id |-> id, body |-> body])
    /\ UNCHANGED <<inflight, now, nextId, deleted, accessDone>>

\* DELETE /:id up to the await of deleteFile(s3Key)
DeleteFind(s) ==
  \E c \in Collections, id \in RequestIds :
    LET found == findById(Coll(c), id)
    IN  /\ Start
        /\ IF id = MalformedId
           THEN /\ Respond([op |-> "delete", status |-> 500, coll |-> c,
                            id |-> id])
                /\ s = 1
                /\ UNCHANGED inflight
           ELSE IF found = None
           THEN /\ Respond([op |-> "delete", status |-> 404, coll |-> c,
                            id |-> id])
                /\ s = 1
                /\ UNCHANGED inflight
           ELSE /\ Free(s)
                /\ inflight' = [inflight EXCEPT ![s] =
                     [op |-> "delete", pc |-> "s3", coll |-> c, id |-> id,
                      s3Key |-> found[1].s3Key]]
                /\ Silent
        /\ UNCHANGED <<SoundData, PhotoData, now, nextId, deleted,
                       accessDone>>

\* a delete handler without the inner try/catch: the error of deleteFile ends
\* the handler before findByIdAndDelete
afterDeleteFile_Propagate(r, ok) ==
  IF ok THEN [op |-> "delete", pc |-> "db", coll |-> r.coll, id |-> r.id,
              s3Key |-> r.s3Key, s3Deleted |-> ok]
        ELSE Idle

\* the delete handler after the try/catch around deleteFile: the error is
\* logged and swallowed, findByIdAndDelete is issued either way
afterDeleteFile(r, ok) ==
  [op |-> "delete", pc |-> "db", coll |-> r.coll, id |-> r.id,
   s3Key |-> r.s3Key, s3Deleted |-> ok]

\* deleteFile(s3Key) resolves or throws
deleteFile(s) ==
  \E ok \in BOOLEAN :
    /\ inflight[s].op = "delete"
    /\ inflight[s].pc = "s3"
    /\ inflight' = [inflight EXCEPT ![s] = afterDeleteFile(inflight[s], ok)]
    /\ Silent
    /\ UNCHANGED <<SoundData, PhotoData, now, nextId, deleted, accessDone,
                   started>>

\* the awaited findByIdAndDelete(id) and the response of DELETE /:id
DeleteRecord(s) ==
  /\ inflight[s].op = "delete"
  /\ inflight[s].pc = "db"
  /\ LET r == inflight[s]
     IN  /\ SetColl(r.coll, Remove(Coll(r.coll), r.id))
         /\ deleted' = deleted \cup
                         {[id |-> r.id, s3Key |-> r.s3Key,
                           s3Deleted |-> r.s3Deleted]}
         /\ Respond([op |-> "delete", status |-> 200, coll |-> r.coll,
                     id |-> r.id, s3Deleted |-> r.s3Deleted])
  /\ inflight' = [inflight EXCEPT ![s] = Idle]
  /\ UNCHANGED <<now, nextId, accessDone, started>>

\* the awaited findByIdAndDelete(id) rejects (the record store is
\* unreachable or times out): the outer catch answers 500
DeleteRecordFails(s) ==
  /\ inflight[s].op = "delete"
  /\ inflight[s].pc = "db"
  /\ LET r == inflight[s]
     IN  Respond([op |-> "delete", status |-> 500, coll |-> r.coll,
                  id |-> r.id, s3Deleted |-> r.s3Deleted])
  /\ inflight' = [inflight EXCEPT ![s] = Idle]
  /\ UNCHANGED <<SoundData, PhotoData, now, nextId, deleted, accessDone,
                 started>>

\* the list routes: GET /, GET /visit/:visitId, GET /patient/:patientId
ListQueries == {"all", "visit", "patient"}

\* the documents a list query for visit "v1" or patient "p1" returns
Listed(c, q) ==
  {i \in DOMAIN Coll(c) :
     \/ q = "all"
     \/ q = "visit" /\ Coll(c)[i].visitId = "v1"
     \/ q = "patient" /\ Coll(c)[i].patientId = "p1"}

\* list routes that call recordAccess() on every document returned
List_RecordsAccess ==
  \E c \in Collections, q \in ListQueries :
    /\ Start
    /\ Respond([op |-> "list", status |-> 200, coll |-> c, query |-> q,
                total |-> Cardinality(Listed(c, q))])
    /\ SetColl(c, [i \in DOMAIN Coll(c) |->
                    IF i \in Listed(c, q)
                    THEN ApplySet(Coll(c)[i], recordAccess(Coll(c)[i], now))
                    ELSE Coll(c)[i]])
    /\ UNCHANGED <<inflight, now, nextId, deleted, accessDone>>

\* GET /api/sound-data, GET /api/sound-data/visit/:visitId,
\* GET /api/sound-data/patient/:patientId and the same of photo-data
List ==
  \E c \in Collections, q \in ListQueries :
    /\ Start
    /\ Respond([op |-> "list", status |-> 200, coll |-> c, query |-> q,
                total |-> Cardinality(Listed(c, q))])
    /\ UNCHANGED <<SoundData, PhotoData, inflight, now, nextId, deleted,
                   accessDone>>

\* ------------------------------------------------------------- statistics
RECURSIVE SumFileSize(_, _)
\* { $sum: '$fileSize' } over the documents with the given ids
SumFileSize(coll, ids) ==
  IF ids = {} THEN 0
  ELSE LET i == CHOOSE j \in ids : TRUE
       IN  coll[i].fileSize + SumFileSize(coll, ids \ {i})

\* a JavaScript number, and NaN (the sum of a number and undefined)
Num(n) == <<n>>
NaN    == <<>>

\* soundDataSchema.statics.getStats with the fallback of the stats handler:
\* totalFiles and totalSize of the collection
soundGetStats ==
  [ totalFiles |-> Num(Cardinality(DOMAIN SoundData)),
    totalSize  |-> Num(SumFileSize(SoundData, DOMAIN SoundData)) ]

\* photoDataSchema.statics.getStats with the fallback of the stats handler:
\* the group stage names its count totalPhotos, so totalFiles is undefined
\* unless the collection is empty and the fallback object is used
photoGetStats ==
  IF DOMAIN PhotoData = {}
  THEN [ totalFiles |-> Num(0), totalSize |-> Num(0) ]
  ELSE [ totalFiles |-> NaN,
         totalSize  |-> Num(SumFileSize(PhotoData, DOMAIN PhotoData)) ]

\* a + b of JavaScript
Plus(a, b) == IF a = NaN \/ b = NaN THEN NaN ELSE Num(a[1] + b[1])

\* GET /api/uploads/stats up to the await of PhotoData.getStats()
StatsSound(s) ==
  /\ Free(s)
  /\ Start
  /\ inflight' = [inflight EXCEPT ![s] =
       [op |-> "stats", soundOverall |-> soundGetStats]]
  /\ Silent
  /\ UNCHANGED <<SoundData, PhotoData, now, nextId, deleted, accessDone>>

\* the stats handler resumed after PhotoData.getStats(), and its response
StatsPhoto(s) ==
  /\ inflight[s].op = "stats"
  /\ LET soundOverall == inflight[s].soundOverall
         photoOverall == photoGetStats
     IN  Respond([op |-> "stats", status |-> 200,
                  totalFiles |-> Plus(soundOverall.totalFiles,
                                      photoOverall.totalFiles),
                  totalSize  |-> Plus(soundOverall.totalSize,
                                      photoOverall.totalSize)])
  /\ inflight' = [inflight EXCEPT ![s] = Idle]
  /\ UNCHANGED <<SoundData, PhotoData, now, nextId, deleted, accessDone,
                 started>>

Next ==
  \/ Tick
  \/ PresignedUrlInvalid
  \/ \E s \in Slots : PresignedUrl(s)
  \/ \E s \in Slots : PresignedUrlSave(s)
  \/ ConfirmInvalid
  \/ \E s \in Slots : ConfirmFindSound(s)
  \/ \E s \in Slots : ConfirmFindPhoto(s)
  \/ \E s \in Slots : ConfirmSave(s)
  \/ \E s \in Slots : GetById(s)
  \/ \E s \in Slots : Download(s)
  \/ \E s \in Slots : AccessSave(s)
  \/ Update
  \/ \E s \in Slots : DeleteFind(s)
  \/ \E s \in Slots : deleteFile(s)
  \/ \E s \in Slots : DeleteRecord(s)
  \/ List
  \/ \E s \in Slots : StatsSound(s)
  \/ \E s \in Slots : StatsPhoto(s)

Spec == Init /\ [][Next]_vars

\* access recordings on one record issued one after the other: a handler
\* reads a record for recordAccess() only when no other handler holds it
\* for recordAccess()
AccessesSequential ==
  \A s \in Slots, r \in Slots :
    ( /\ s # r
      /\ inflight[s].op \in {"get", "download"}
      /\ inflight[r].op \in {"get", "download"} )
    => inflight[s].id # inflight[r].id

NextSeq == Next /\ AccessesSequential'

SpecSeq == Init /\ [][NextSeq]_vars

\* confirm requests for one key issued one after the other
ConfirmsSequential ==
  \A s \in Slots, r \in Slots :
    (s # r /\ inflight[s].op = "confirm" /\ inflight[r].op = "confirm")
    => inflight[s].body.s3Key # inflight[r].body.s3Key

NextConfirmSeq == Next /\ ConfirmsSequential'

SpecConfirmSeq == Init /\ [][NextConfirmSeq]_vars

\* The service with a record store that can fail the awaited
\* findByIdAndDelete of a delete handler
NextStoreFailure == Next \/ \E s \in Slots : DeleteRecordFails(s)

SpecStoreFailure == Init /\ [][NextStoreFailure]_vars

\* confirms of one key one after the other and access recordings of one
\* record one after the other, while a confirm may still overlap an access
\* recording or a metadata update of the same record
NextConfirmWithOthers == Next /\ ConfirmsSequential' /\ AccessesSequential'

SpecConfirmWithOthers == Init /\ [][NextConfirmWithOthers]_vars

\* The service with every retentionPolicy of presignedUrlSchema sent by the
\* clients, followed over the life of the first record.
RetentionBodies ==
  {[fileName |-> fn, contentType |-> ct, visitId |-> v, patientId |-> p,
    staffId |-> None, recordingType |-> None, photoType |-> pt,
    retentionPolicy |-> Some(rp), description |-> None] :
     fn \in FileNames, ct \in ALLOWED_FILE_TYPES, v \in VisitIds,
     p \in PatientIds, pt \in PhotoTypeInputs, rp \in JoiRetentionPolicies}

PresignedUrlRetention(s) ==
  \E body \in RetentionBodies : PresignedUrlFor(s, body)

RetentionScope == nextId <= 2 /\ started <= MaxRetentionRequests

NextRetention ==
  \/ Tick /\ RetentionScope'
  \/ PresignedUrlInvalid /\ RetentionScope'
  \/ \E s \in Slots : PresignedUrlRetention(s) /\ RetentionScope'
  \/ \E s \in Slots : PresignedUrlSave(s) /\ RetentionScope'
  \/ ConfirmInvalid /\ RetentionScope'
  \/ \E s \in Slots : ConfirmFindSound(s) /\ RetentionScope'
  \/ \E s \in Slots : ConfirmFindPhoto(s) /\ RetentionScope'
  \/ \E s \in Slots : ConfirmSave(s) /\ RetentionScope'
  \/ \E s \in Slots : GetById(s) /\ RetentionScope'
  \/ \E s \in Slots : Download(s) /\ RetentionScope'
  \/ \E s \in Slots : AccessSave(s) /\ RetentionScope'
  \/ Update /\ RetentionScope'
  \/ \E s \in Slots : DeleteFind(s) /\ RetentionScope'
  \/ \E s \in Slots : deleteFile(s) /\ RetentionScope'
  \/ \E s \in Slots : DeleteRecord(s) /\ RetentionScope'
  \/ List /\ RetentionScope'
  \/ \E s \in Slots : StatsSound(s) /\ RetentionScope'
  \/ \E s \in Slots : StatsPhoto(s) /\ RetentionScope'

SpecRetention == Init /\ [][NextRetention]_vars

\* The service with presigned-url requests that name the staff member
\* (staffId, stored as uploadedBy of the pending record), followed over the
\* life of the first record.
StaffBodies ==
  {[fileName |-> fn, contentType |-> ct, visitId |-> v, patientId |-> p,
    staffId |-> Some("u1"), recordingType |-> None, photoType |-> pt,
    retentionPolicy |-> None, description |-> None] :
     fn \in FileNames, ct \in ALLOWED_FILE_TYPES, v \in VisitIds,
     p \in PatientIds, pt \in PhotoTypeInputs}

PresignedUrlStaff(s) ==
  \E body \in StaffBodies : PresignedUrlFor(s, body)

ConfirmRaceScope == nextId <= 2 /\ started <= MaxConfirmRaceRequests

NextConfirmRace ==
  \/ Tick /\ ConfirmRaceScope'
  \/ PresignedUrlInvalid /\ ConfirmRaceScope'
  \/ \E s \in Slots : PresignedUrlStaff(s) /\ ConfirmRaceScope'
  \/ \E s \in Slots : PresignedUrlSave(s) /\ ConfirmRaceScope'
  \/ ConfirmInvalid /\ ConfirmRaceScope'
  \/ \E s \in Slots : ConfirmFindSound(s) /\ ConfirmRaceScope'
  \/ \E s \in Slots : ConfirmFindPhoto(s) /\ ConfirmRaceScope'
  \/ \E s \in Slots : ConfirmSave(s) /\ ConfirmRaceScope'
  \/ \E s \in Slots : GetById(s) /\ ConfirmRaceScope'
  \/ \E s \in Slots : Download(s) /\ ConfirmRaceScope'
  \/ \E s \in Slots : AccessSave(s) /\ ConfirmRaceScope'
  \/ Update /\ ConfirmRaceScope'
  \/ \E s \in Slots : DeleteFind(s) /\ ConfirmRaceScope'
  \/ \E s \in Slots : deleteFile(s) /\ ConfirmRaceScope'
  \/ \E s \in Slots : DeleteRecord(s) /\ ConfirmRaceScope'
  \/ List /\ ConfirmRaceScope'
  \/ \E s \in Slots : StatsSound(s) /\ ConfirmRaceScope'
  \/ \E s \in Slots : StatsPhoto(s) /\ ConfirmRaceScope'

SpecConfirmRace == Init /\ [][NextConfirmRace]_vars

\* The service with file names of one, two and three dot-separated parts
\* ('rec', 'rec.wav', 'scan.v2.jpg'), followed over the life of the first
\* record.
ExtensionFileNames == {<<"rec">>, <<"rec", "wav">>, <<"scan", "v2", "jpg">>}

ExtensionBodies ==
  {[fileName |-> fn, contentType |-> ct, visitId |-> v, patientId |-> p,
    staffId |-> None, recordingType |-> None, photoType |-> pt,
    retentionPolicy |-> None, description |-> None] :
     fn \in ExtensionFileNames, ct \in ALLOWED_FILE_TYPES, v \in VisitIds,
     p \in PatientIds, pt \in PhotoTypeInputs}

PresignedUrlExtension(s) ==
  \E body \in ExtensionBodies : PresignedUrlFor(s, body)

ExtensionScope == nextId <= 2 /\ started <= MaxExtensionRequests

NextExtension ==
  \/ Tick /\ ExtensionScope'
  \/ PresignedUrlInvalid /\ ExtensionScope'
  \/ \E s \in Slots : PresignedUrlExtension(s) /\ ExtensionScope'
  \/ \E s \in Slots : PresignedUrlSave(s) /\ ExtensionScope'
  \/ ConfirmInvalid /\ ExtensionScope'
  \/ \E s \in Slots : ConfirmFindSound(s) /\ ExtensionScope'
  \/ \E s \in Slots : ConfirmFindPhoto(s) /\ ExtensionScope'
  \/ \E s \in Slots : ConfirmSave(s) /\ ExtensionScope'
  \/ \E s \in Slots : GetById(s) /\ ExtensionScope'
  \/ \E s \in Slots : Download(s) /\ ExtensionScope'
  \/ \E s \in Slots : AccessSave(s) /\ ExtensionScope'
  \/ Update /\ ExtensionScope'
  \/ \E s \in Slots : DeleteFind(s) /\ ExtensionScope'
  \/ \E s \in Slots : deleteFile(s) /\ ExtensionScope'
  \/ \E s \in Slots : DeleteRecord(s) /\ ExtensionScope'
  \/ List /\ ExtensionScope'
  \/ \E s \in Slots : StatsSound(s) /\ ExtensionScope'
  \/ \E s \in Slots : StatsPhoto(s) /\ ExtensionScope'

SpecExtension == Init /\ [][NextExtension]_vars

\* ==================================================================
\* Properties
\* ==================================================================
AllIds == DOMAIN SoundData \cup DOMAIN PhotoData

CollOf(id) == IF id \in DOMAIN SoundData THEN "sound" ELSE "photo"

Doc(id) == Coll(CollOf(id))[id]

\* C1: a presigned-url request answered with success has created a record
\* that is pending with fileSize 0; the dataId and s3Key of the response
\* identify it, it is of the kind the response names, and it carries the
\* visitId and patientId of the request.
C1_PresignCreatesPending ==
  (lastResp.op = "presign" /\ lastResp.status = 200) =>
    LET c == IF lastResp.type = "audio" THEN "sound" ELSE "photo"
    IN  /\ lastResp.dataId \in DOMAIN Coll(c)
        /\ Coll(c)[lastResp.dataId].processingStatus = "pending"
        /\ Coll(c)[lastResp.dataId].fileSize = 0
        /\ Coll(c)[lastResp.dataId].s3Key = lastResp.s3Key
        /\ Coll(c)[lastResp.dataId].visitId = lastResp.body.visitId
        /\ Coll(c)[lastResp.dataId].patientId = lastResp.body.patientId
        /\ isAudio(lastResp.body.contentType) <=> c = "sound"

C1_Witness ==
  /\ lastResp.op = "presign"
  /\ lastResp.status = 200
  /\ lastResp.type = "audio"
  /\ DOMAIN PhotoData # {}

\* C2: no two stored records, of the same kind or of different kinds, hold
\* the same storage key.
C2_UniqueStorageKey ==
  \A i \in AllIds, j \in AllIds : i # j => Doc(i).s3Key # Doc(j).s3Key

C2_Witness ==
  /\ Cardinality(DOMAIN SoundData) = 2
  /\ lastResp.op = "presign"
  /\ lastResp.status = 200

\* C3: a confirm that read a pending record and is answered with success has
\* stored status completed, exactly the fileSize sent and (audio, when a
\* duration is sent) the duration sent; a get-by-id that reads the record right after that
\* response returns the fileSize sent.
C3_ConfirmStored ==
  (lastResp.op = "confirm" /\ lastResp.status = 200
     /\ lastResp.read = "pending") =>
    /\ lastResp.dataId \in AllIds
    /\ Doc(lastResp.dataId).processingStatus = "completed"
    /\ Doc(lastResp.dataId).fileSize = lastResp.body.fileSize
    /\ (lastResp.type = "audio" /\ lastResp.body.duration # None) =>
         Doc(lastResp.dataId).duration = lastResp.body.duration

C3_ReadBack ==
  \A s \in Slots :
    ( /\ lastResp.op = "confirm" /\ lastResp.status = 200
      /\ lastResp.read = "pending"
      /\ inflight[s].op = "idle"
      /\ inflight'[s].op = "get"
      /\ inflight'[s].id = lastResp.dataId )
    => inflight'[s].doc.fileSize = lastResp.body.fileSize

C3_ConfirmRoundTrip == [](C3_ConfirmStored) /\ [][C3_ReadBack]_vars

C3_Witness ==
  \E s \in Slots :
    /\ inflight[s].op = "get"
    /\ inflight[s].doc.fileSize = 2
    /\ inflight[s].doc.processingStatus = "completed"

\* C4: a confirm whose key is found in neither collection is answered with
\* not-found, and that step changes no record and adds none.
C4_Step ==
  \A s \in Slots :
    ( /\ inflight[s].op = "confirm"
      /\ inflight[s].pc = "findPhoto"
      /\ inflight'[s] # inflight[s]
      /\ inflight[s].body.s3Key \notin Keys(PhotoData) )
    => /\ lastResp' = [op |-> "confirm", status |-> 404,
                       s3Key |-> inflight[s].body.s3Key]
       /\ inflight'[s] = Idle
       /\ UNCHANGED <<SoundData, PhotoData>>

C4_ConfirmNotFound == [][C4_Step]_vars

C4_Witness ==
  /\ lastResp.op = "confirm"
  /\ lastResp.status = 404
  /\ DOMAIN PhotoData # {}
  /\ DOMAIN SoundData # {}

\* C5: a record is created pending, and its processingStatus changes only
\* in a step that answers a confirm for it with success, and only from
\* pending to completed; no other step changes it.
C5_Step ==
  \A id \in Ids :
    /\ (id \notin AllIds /\ id \in AllIds') =>
         Doc(id)'.processingStatus = "pending"
    /\ (id \in AllIds /\ id \in AllIds'
          /\ Doc(id)'.processingStatus # Doc(id).processingStatus) =>
         /\ Doc(id).processingStatus = "pending"
         /\ Doc(id)'.processingStatus = "completed"
         /\ lastResp'.op = "confirm"
         /\ lastResp'.status = 200
         /\ lastResp'.dataId = id

C5_StatusOnlyByConfirm == [][C5_Step]_vars

C5_Witness ==
  /\ lastResp.op = "update"
  /\ lastResp.status = 200
  /\ Doc(lastResp.id).processingStatus = "completed"
  /\ Doc(lastResp.id).accessLevel = "private"

AccessInFlight(id) ==
  \E s \in Slots : inflight[s].op \in {"get", "download"} /\ inflight[s].id = id

\* C6: no increment of concurrent access recordings is lost: once the k
\* access recordings issued on a record have completed, its accessCount is
\* k higher than before (k, for a record created with accessCount 0).
C6_NoLostIncrement ==
  \A id \in AllIds :
    ~AccessInFlight(id) => Doc(id).accessCount = accessDone[id]

\* C7: when the accesses to a record are sequential, each successful
\* get-by-id or download adds exactly 1 to the stored accessCount and stores
\* as lastAccessedAt the time of that call, so the stored accessCount is the
\* number of successful accesses.
C7_Count == \A id \in AllIds : Doc(id).accessCount = accessDone[id]

C7_Step ==
  \A s \in Slots :
    /\ (inflight[s].op = "idle" /\ inflight'[s].op \in {"get", "download"})
         => inflight'[s].doc.lastAccessedAt = now
    /\ ( /\ inflight[s].op \in {"get", "download"}
         /\ inflight'[s] = Idle
         /\ lastResp'.status = 200 )
         => \A id \in Ids :
              id = inflight[s].id =>
                /\ Doc(id)'.accessCount = Doc(id).accessCount + 1
                /\ Doc(id)'.lastAccessedAt = inflight[s].doc.lastAccessedAt

C7_SequentialAccess == [](C7_Count) /\ [][C7_Step]_vars

C7_Witness ==
  \E id \in AllIds :
    /\ Doc(id).accessCount = 2
    /\ Doc(id).uploadedAt = 0
    /\ Doc(id).lastAccessedAt = 1
    /\ lastResp.op = "download"
    /\ lastResp.status = 200

\* C8: the stored accessCount of a record is never negative and never
\* decreases from one state to the next.
C8_NonNegative == \A id \in AllIds : Doc(id).accessCount >= 0

C8_Step ==
  \A id \in Ids :
    (id \in AllIds /\ id \in AllIds') =>
      Doc(id)'.accessCount >= Doc(id).accessCount

C8_AccessCountMonotonic == [](C8_NonNegative) /\ [][C8_Step]_vars

DeletedIds == {d.id : d \in deleted}

\* C9: a delete handler that found its record ends by removing the record
\* and answering success, whether deleteFile resolved or threw; the record
\* stays absent, and a get-by-id received for a deleted id is answered with
\* not-found.
C9_Gone == DeletedIds \cap AllIds = {}

C9_Step ==
  /\ \A s \in Slots :
       (inflight[s].op = "delete" /\ inflight'[s].op # "delete") =>
         /\ lastResp'.op = "delete"
         /\ lastResp'.status = 200
         /\ lastResp'.id = inflight[s].id
         /\ inflight[s].id \notin AllIds'
         /\ inflight[s].id \in DeletedIds'
  /\ \A s \in Slots :
       (inflight[s].op = "idle" /\ inflight'[s].op = "get") =>
         inflight'[s].id \notin DeletedIds
  /\ (started' # started /\ lastResp'.op = "get"
        /\ lastResp'.id \in DeletedIds) => lastResp'.status = 404

C9_DeleteRemovesRecord == [](C9_Gone) /\ [][C9_Step]_vars

C9_Witness ==
  /\ lastResp.op = "get"
  /\ lastResp.status = 404
  /\ \E d \in deleted : d.id = lastResp.id /\ ~d.s3Deleted

\* C10: a stored record with processingStatus completed has a fileSize of
\* at least 1, never the 0 it was created with.
C10_CompletedHasSize ==
  \A id \in AllIds :
    Doc(id).processingStatus = "completed" => Doc(id).fileSize >= 1

C10_Witness ==
  /\ lastResp.op = "confirm"
  /\ lastResp.status = 200
  /\ lastResp.type = "photo"
  /\ \E s \in Slots :
       /\ inflight[s].op = "confirm"
       /\ inflight[s].pc = "save"
       /\ inflight[s].id = lastResp.dataId

\* C11: a presigned-url request with an accepted retentionPolicy, for an
\* audio or an image content type, creates a record whose expiresAt is the
\* time of creation plus 7, 30, 365 or 7 * 365 days of 24 hours for 7_days,
\* 30_days, 1_year and 7_years, and absent for permanent.  (Requests whose
\* photoType is left to its default are not considered here.)
C11_Step ==
  \A s \in Slots :
    ( /\ inflight[s].op = "presign"
      /\ inflight'[s] = Idle
      /\ inflight[s].coll = "sound" \/ inflight[s].body.photoType # None )
    => LET policy == OrElse(inflight[s].body.retentionPolicy, "7_years")
           days   == CASE policy = "7_days"  -> 7
                       [] policy = "30_days" -> 30
                       [] policy = "1_year"  -> 365
                       [] policy = "7_years" -> 7 * 365
                       [] OTHER -> 0
           expected == IF policy = "permanent" THEN None
                       ELSE Some(now + days * DaySeconds)
       IN  /\ lastResp'.status = 200
           /\ \A id \in Ids :
                id = inflight[s].doc._id =>
                  /\ id \in AllIds'
                  /\ Doc(id)'.retentionPolicy = policy
                  /\ Doc(id)'.expiresAt = expected

C11_RetentionExpiry == [][C11_Step]_vars

\* C12: the expiresAt and the retentionPolicy of a stored record are the same
\* after every step (confirm, access recording, download, metadata update
\* included), and a record whose policy is permanent has no expiresAt.
C12_Permanent ==
  \A id \in AllIds :
    Doc(id).retentionPolicy = "permanent" => Doc(id).expiresAt = None

C12_Step ==
  \A id \in Ids :
    (id \in AllIds /\ id \in AllIds') =>
      /\ Doc(id)'.expiresAt = Doc(id).expiresAt
      /\ Doc(id)'.retentionPolicy = Doc(id).retentionPolicy

C12_ExpiryFixedAtCreation == [](C12_Permanent) /\ [][C12_Step]_vars

C12_Witness ==
  \E id \in AllIds :
    /\ Doc(id).retentionPolicy = "permanent"
    /\ Doc(id).processingStatus = "completed"
    /\ Doc(id).uploadedAt = 1
    /\ Doc(id).accessCount >= 1
    /\ lastResp.op = "download"

\* C13: a presigned-url request for an image or an audio content type that
\* omits the optional classification fields (photoType, recordingType) and
\* whose generated key is not held by a stored record persists a record of
\* the kind of its content type; an image request and an audio request for
\* the same visitId therefore leave one photo and one audio record.
C13_Step ==
  \A s \in Slots :
    ( /\ inflight[s].op = "presign"
      /\ inflight'[s] = Idle
      /\ inflight[s].body.photoType = None
      /\ inflight[s].body.recordingType = None
      /\ inflight[s].doc.s3Key \notin Keys(SoundData) \cup Keys(PhotoData) )
    => /\ lastResp'.status = 200
       /\ \A id \in Ids :
            id = inflight[s].doc._id =>
              IF isAudio(inflight[s].body.contentType)
              THEN id \in DOMAIN SoundData'
              ELSE id \in DOMAIN PhotoData'

C13_ImageAndAudioSameVisit == [][C13_Step]_vars

\* C14: a presigned-url request whose content type is outside the allow-list
\* or whose visitId is missing, and a confirm request with fileSize < 1, is
\* never taken up by its handler; a step that answers 400 changes no record,
\* constructs no document and leaves no handler holding a presigned URL.
C14_OnlyValidProceed ==
  \A s \in Slots :
    /\ inflight[s].op = "presign" =>
         /\ inflight[s].body.contentType \in ALLOWED_FILE_TYPES
         /\ inflight[s].body.visitId # ""
    /\ inflight[s].op = "confirm" => inflight[s].body.fileSize >= 1

C14_Step ==
  lastResp'.status = 400 =>
    /\ lastResp'.op \in {"presign", "confirm", "update"}
    /\ UNCHANGED <<SoundData, PhotoData, inflight, nextId>>

C14_ValidationRejects == [](C14_OnlyValidProceed) /\ [][C14_Step]_vars

C14_Witness ==
  /\ lastResp = [op |-> "confirm", status |-> 400]
  /\ \E id \in AllIds : Doc(id).processingStatus = "pending"
  /\ \E s \in Slots : inflight[s].op = "presign"

\* C15: the list, by-visit, by-patient and stats queries leave the
\* accessCount and lastAccessedAt of every record unchanged; a step that
\* changes either of them on a stored record is the save of a get-by-id or
\* download handler.
C15_Step ==
  /\ ( \/ lastResp'.op \in {"list", "stats"}
       \/ \E s \in Slots : inflight[s].op = "idle" /\ inflight'[s].op = "stats" )
       => UNCHANGED <<SoundData, PhotoData>>
  /\ \A id \in Ids :
       ( /\ id \in AllIds /\ id \in AllIds'
         /\ \/ Doc(id)'.accessCount # Doc(id).accessCount
            \/ Doc(id)'.lastAccessedAt # Doc(id).lastAccessedAt )
       => /\ lastResp'.op \in {"get", "download"}
          /\ lastResp'.status = 200
          /\ lastResp'.id = id

C15_OnlyReadsByIdRecordAccess == [][C15_Step]_vars

C15_Witness ==
  /\ lastResp.op = "list"
  /\ lastResp.query \in {"visit", "patient"}
  /\ lastResp.total >= 1
  /\ \E id \in AllIds : Doc(id).accessCount = 1 /\ accessDone[id] = 1

\* C16: a metadata update changes, on the record it names, only description,
\* tags, the classification (recordingType or photoType) and accessLevel;
\* every other field of that record and every other record stay as they
\* are; an update that carries a lifecycle field (processingStatus) is
\* answered 400 and changes nothing.
C16_Step ==
  lastResp'.op = "update" =>
    /\ DOMAIN SoundData' = DOMAIN SoundData
    /\ DOMAIN PhotoData' = DOMAIN PhotoData
    /\ \A id \in AllIds :
         \A f \in DOMAIN Doc(id) :
           Doc(id)'[f] # Doc(id)[f] =>
             /\ lastResp'.status = 200
             /\ lastResp'.id = id
             /\ lastResp'.coll = CollOf(id)
             /\ f \in {"description", "tags", "accessLevel",
                       "recordingType", "photoType"}
    /\ lastResp'.body.unknownKey =>
         /\ lastResp'.status = 400
         /\ UNCHANGED <<SoundData, PhotoData>>

C17_Step ==
  /\ \A s \in Slots :
       (inflight[s].op = "idle" /\ inflight'[s].op = "confirm") =>
         IF inflight'[s].pc = "findPhoto"
         THEN inflight'[s].body.s3Key \notin Keys(SoundData)
         ELSE /\ inflight'[s].coll = "sound"
              /\ inflight'[s].id \in DOMAIN SoundData
              /\ SoundData[inflight'[s].id].s3Key = inflight'[s].body.s3Key
  /\ \A s \in Slots :
       ( /\ inflight[s].op = "confirm" /\ inflight[s].pc = "findPhoto"
         /\ inflight'[s].op = "confirm" /\ inflight'[s].pc = "save" ) =>
         /\ inflight'[s].coll = "photo"
         /\ inflight'[s].id \in DOMAIN PhotoData
         /\ PhotoData[inflight'[s].id].s3Key = inflight[s].body.s3Key
  /\ (lastResp'.op = "confirm" /\ lastResp'.status = 200) =>
       \A c \in Collections :
         IF c = (IF lastResp'.type = "audio" THEN "sound" ELSE "photo")
         THEN /\ lastResp'.dataId \in DOMAIN Coll(c)
              /\ Coll(c)[lastResp'.dataId].s3Key = lastResp'.s3Key
              /\ DOMAIN Coll(c)' = DOMAIN Coll(c)
              /\ \A i \in DOMAIN Coll(c) :
                   i # lastResp'.dataId => Coll(c)'[i] = Coll(c)[i]
         ELSE Coll(c)' = Coll(c)
  /\ (lastResp'.op = "confirm" /\ lastResp'.status # 200) =>
       UNCHANGED <<SoundData, PhotoData>>

C17_ConfirmResolvesOneRecord == [][C17_Step]_vars

C17_Witness ==
  /\ lastResp.op = "confirm"
  /\ lastResp.status = 200
  /\ lastResp.type = "photo"
  /\ PhotoData[lastResp.dataId].processingStatus = "completed"
  /\ \E i \in DOMAIN SoundData : SoundData[i].processingStatus = "pending"

\* C18: a presigned-url request answered with success has added exactly one
\* record, stored under the s3Key of the response; a step that adds a record
\* to either store is such a step, so no other operation creates a record.
C18_Step ==
  LET added == AllIds' \ AllIds
  IN  /\ (lastResp'.op = "presign" /\ lastResp'.status = 200) =>
            /\ added = {lastResp'.dataId}
            /\ \A id \in added : Doc(id)'.s3Key = lastResp'.s3Key
      /\ added # {} => (lastResp'.op = "presign" /\ lastResp'.status = 200)

C18_OnlyPresignCreates == [][C18_Step]_vars

C18_Witness ==
  /\ lastResp.op = "presign"
  /\ lastResp.status = 200
  /\ AllIds = {lastResp.dataId}
  /\ deleted # {}

\* C19: when the confirms of a key are issued one after the other, a confirm
\* that finds its record already completed is answered with success and
\* stores the fileSize and uploadedBy of its own request and the time of
\* its own call as uploadedAt, with processingStatus still completed.
C19_Step ==
  \A s \in Slots :
    /\ (inflight'[s].op = "confirm" /\ inflight'[s] # inflight[s]
          /\ inflight'[s].pc = "save")
         => inflight'[s].doc.uploadedAt = now
    /\ ( /\ inflight[s].op = "confirm"
         /\ inflight[s].pc = "save"
         /\ inflight[s].read = "completed"
         /\ inflight[s].id \in DOMAIN Coll(inflight[s].coll)
         /\ inflight'[s] = Idle )
         => /\ lastResp'.op = "confirm"
            /\ lastResp'.status = 200
            /\ \A id \in Ids :
                 id = inflight[s].id =>
                   /\ Doc(id)'.fileSize = inflight[s].body.fileSize
                   /\ Doc(id)'.uploadedBy = inflight[s].body.uploadedBy
                   /\ Doc(id)'.uploadedAt = inflight[s].doc.uploadedAt
                   /\ Doc(id)'.processingStatus = "completed"

C19_ReconfirmOverwrites == [][C19_Step]_vars

C19_Witness ==
  /\ lastResp.op = "confirm"
  /\ lastResp.status = 200
  /\ lastResp.type = "photo"
  /\ lastResp.read = "completed"
  /\ lastResp.body.fileSize = 2
  /\ PhotoData[lastResp.dataId].fileSize = 2
  /\ PhotoData[lastResp.dataId].uploadedBy = "u2"
  /\ PhotoData[lastResp.dataId].uploadedAt = 1
  /\ PhotoData[lastResp.dataId].dimensions = Some(<<640, 480>>)

\* C20: the s3Key of a record that has been deleted is not the s3Key of any
\* record stored afterwards: no later presigned-url request assigns it to a
\* new record.
C20_NoKeyReuseAfterDelete ==
  \A d \in deleted : d.s3Key \notin Keys(SoundData) \cup Keys(PhotoData)

\* C21: a stats request during which no record is stored, removed or
\* confirmed answers overall.totalFiles = the number of stored records of
\* both kinds and overall.totalSize = the sum of their fileSize.
C21_Step ==
  \A s \in Slots :
    ( /\ inflight[s].op = "stats"
      /\ inflight'[s] = Idle
      /\ inflight[s].soundOverall = soundGetStats )
    => /\ lastResp'.op = "stats"
       /\ lastResp'.totalFiles =
            Num(Cardinality(DOMAIN SoundData) + Cardinality(DOMAIN PhotoData))
       /\ lastResp'.totalSize =
            Num(SumFileSize(SoundData, DOMAIN SoundData)
                  + SumFileSize(PhotoData, DOMAIN PhotoData))

C21_StatsTotals == [][C21_Step]_vars

\* a step that starts a by-id request (get, download-URL, delete, or a
\* metadata update with a valid body) for an id of ids that matches no record
\* of the addressed store answers 404, changes no record and starts no
\* handler continuation (no deleteFile, no signing, no save)
C22_Step(ids) ==
  /\ ( /\ started' # started
       /\ lastResp' # NoResp
       /\ lastResp'.op \in {"get", "download", "delete", "update"}
       /\ lastResp'.op = "update" => updateSchema(lastResp'.body)
       /\ lastResp'.id \in ids
       /\ lastResp'.id \notin DOMAIN Coll(lastResp'.coll) )
     => /\ lastResp'.status = 404
        /\ UNCHANGED <<SoundData, PhotoData, inflight, deleted>>
  /\ \A s \in Slots :
       ( /\ inflight[s] = Idle
         /\ inflight'[s].op \in {"get", "download", "delete"}
         /\ inflight'[s].id \in ids )
       => inflight'[s].id \in DOMAIN Coll(inflight'[s].coll)

KindField(c) == IF c = "sound" THEN "duration" ELSE "dimensions"

C23_Step(kinds) ==
  \A s \in Slots, id \in Ids :
    ( /\ inflight[s].op = "confirm"
      /\ inflight[s].pc = "save"
      /\ inflight[s].coll \in kinds
      /\ inflight[s].id = id
      /\ inflight'[s] = Idle
      /\ lastResp'.op = "confirm"
      /\ lastResp'.status = 200 )
    => LET c == inflight[s].coll
           f == KindField(c)
           sent == inflight[s].body[f]
       IN  /\ id \in DOMAIN Coll(c)
           /\ IF c = "sound"
              THEN /\ id \in DOMAIN SoundData'
                   /\ SoundData'[id][f] =
                        (IF sent = None THEN SoundData[id][f] ELSE sent)
              ELSE /\ id \in DOMAIN PhotoData'
                   /\ PhotoData'[id][f] =
                        (IF sent = None THEN PhotoData[id][f] ELSE sent)

\* C23: a successful confirm that omits duration (audio) or dimensions (photo)
\* leaves the stored duration or dimensions as they were, and one that
\* supplies the field stores exactly the supplied value
C23_KindFieldOnlyIfPresent == [][C23_Step(Collections)]_vars

\* the photo half of C23 taken alone: dimensions are assigned only if sent
C23_PhotoDimensionsOnlyIfPresent == [][C23_Step({"photo"})]_vars

\* the paths written by confirm, by recordAccess() and by a metadata update
ConfirmPaths == {"fileSize", "uploadedBy", "processingStatus", "uploadedAt",
                 "duration", "dimensions"}

AccessPaths == {"accessCount", "lastAccessedAt"}

UpdatePaths == {"description", "tags", "accessLevel", "recordingType",
                "photoType"}

C24_Step ==
  \A id \in AllIds :
    /\ ( /\ lastResp'.op = "confirm"
         /\ lastResp'.status = 200
         /\ lastResp'.dataId = id )
       => /\ id \in AllIds'
          /\ Doc(id)'.processingStatus = "completed"
          /\ Doc(id)'.fileSize = lastResp'.body.fileSize
          /\ \A f \in DOMAIN Doc(id) \cap (AccessPaths \cup UpdatePaths) :
               Doc(id)'[f] = Doc(id)[f]
    /\ ( /\ lastResp'.op \in {"get", "download"}
         /\ lastResp'.status = 200
         /\ lastResp'.id = id )
       => /\ id \in AllIds'
          /\ Doc(id)'.accessCount = Doc(id).accessCount + 1
          /\ \A f \in DOMAIN Doc(id) \cap (ConfirmPaths \cup UpdatePaths) :
               Doc(id)'[f] = Doc(id)[f]
    /\ ( /\ lastResp'.op = "update"
         /\ lastResp'.status = 200
         /\ lastResp'.id = id )
       => /\ id \in AllIds'
          /\ lastResp'.body.description # None
               => Doc(id)'.description = lastResp'.body.description
          /\ \A f \in DOMAIN Doc(id) \cap (ConfirmPaths \cup AccessPaths) :
               Doc(id)'[f] = Doc(id)[f]

\* C24: with a confirm overlapping an access recording or a metadata update
\* of the same record, in any interleaving, no write undoes another: the
\* confirm's save leaves the record completed with the confirm's fileSize and
\* keeps accessCount, lastAccessedAt and the updated metadata; the access's
\* save adds one to the stored accessCount and keeps what confirm and update
\* wrote; the update stores its description and keeps what confirm and access
\* wrote
C24_ConfirmWithOthersKeepsBoth == [][C24_Step]_vars

\* an access that read the record while it was pending and saved after the
\* confirm: the record is completed with the confirm's fileSize and counts
\* the access
C24_Witness ==
  /\ lastResp.op \in {"get", "download"}
  /\ lastResp.status = 200
  /\ lastResp.data.processingStatus = "pending"
  /\ lastResp.id \in AllIds
  /\ Doc(lastResp.id).processingStatus = "completed"
  /\ Doc(lastResp.id).fileSize >= 1
  /\ Doc(lastResp.id).accessCount = 1

C25_Step ==
  \A id \in AllIds :
    ( /\ lastResp'.op = "confirm"
      /\ lastResp'.status = 200
      /\ lastResp'.dataId = id )
    => LET body == lastResp'.body
           f    == KindField(CollOf(id))
       IN  /\ id \in AllIds'
           /\ Doc(id)'.processingStatus = "completed"
           /\ Doc(id)'.fileSize = body.fileSize
           /\ Doc(id)'.uploadedBy = body.uploadedBy
           /\ body[f] # None => Doc(id)'[f] = body[f]

\* C25: with confirms of one key overlapping in any way, whenever a confirm
\* has persisted the record is completed and its fileSize, uploadedBy and
\* (when the call sent one) kind-specific field are all those of that call,
\* the one persisted last, never part of one call and part of another
C25_LastConfirmWinsWhole == [][C25_Step]_vars

C26_Step ==
  \A s \in Slots :
    ( /\ inflight[s].op = "delete"
      /\ inflight[s].pc = "db"
      /\ inflight'[s] = Idle
      /\ inflight[s].s3Deleted )
    => /\ lastResp'.op = "delete"
       /\ inflight[s].id \notin AllIds'

\* C26: when a delete request finishes, with success or with an error, and
\* its deleteFile call removed the object, the record it addressed is no
\* longer stored
C26_NoRecordWithoutObject == [][C26_Step]_vars

\* a presigned-url handler at its save() whose document passes the schema
\* of its model and carries a key that a stored record of its kind holds
C27_Collides(s) ==
  /\ inflight[s].op = "presign"
  /\ IF inflight[s].coll = "sound" THEN soundDataSchema(inflight[s].doc)
                                   ELSE photoDataSchema(inflight[s].doc)
  /\ inflight[s].doc.s3Key \in Keys(Coll(inflight[s].coll))

C27_Step ==
  \A s \in Slots :
    (C27_Collides(s) /\ inflight'[s] = Idle)
    => /\ \A id \in AllIds : id \in AllIds' /\ Doc(id)' = Doc(id)
       /\ lastResp'.op = "presign"
       /\ lastResp'.status = 200
       /\ lastResp'.s3Key \notin Keys(SoundData) \cup Keys(PhotoData)
       /\ lastResp'.s3Key \in Keys(SoundData') \cup Keys(PhotoData')

\* C27: a presigned-url request whose generated key is held by a stored
\* record leaves that record as it is and is answered with success for a
\* record created under a fresh key
C27_CollisionRetriesFreshKey == [][C27_Step]_vars

\* the first half of C27 taken alone: the colliding request changes no
\* stored record
C27_CollisionKeepsExisting ==
  [][\A s \in Slots :
       (C27_Collides(s) /\ inflight'[s] = Idle)
       => \A id \in AllIds : id \in AllIds' /\ Doc(id)' = Doc(id)]_vars

\* the extension of a generated key agrees with the file name it was
\* generated for
C28_ExtensionOk(fileName, key) ==
  IF Len(fileName) >= 2 THEN key[5] = fileName[Len(fileName)]
                        ELSE key[5] # fileName[1]

\* C28: every key generated by a presigned-url request ends with the part of
\* fileName after its last '.', and for a fileName without '.' the request is
\* rejected or the key ends with a default extension, never with the whole
\* file name
C28_ExtensionFromFileName ==
  /\ \A s \in Slots :
       inflight[s].op = "presign" =>
         C28_ExtensionOk(inflight[s].body.fileName, inflight[s].doc.s3Key)
  /\ (lastResp.op = "presign" /\ lastResp.status = 200) =>
       C28_ExtensionOk(lastResp.body.fileName, lastResp.s3Key)

\* the part of C28 on file names that have an extension, taken alone
C28_ExtensionAfterLastDot ==
  (lastResp.op = "presign" /\ lastResp.status = 200
     /\ Len(lastResp.body.fileName) >= 2) =>
    lastResp.s3Key[5] = lastResp.body.fileName[Len(lastResp.body.fileName)]

C29_Step ==
  \A s \in Slots :
    ( /\ \/ inflight[s].op \in {"get", "download"}
         \/ inflight[s].op = "confirm" /\ inflight[s].pc = "save"
      /\ inflight'[s] = Idle
      /\ inflight[s].id \notin DOMAIN Coll(inflight[s].coll) )
    => /\ UNCHANGED <<SoundData, PhotoData>>
       /\ inflight[s].id \notin AllIds'
       /\ lastResp'.status = 500

\* C29: the save() of a confirm or of an access recording that read its
\* record before a delete removed it inserts nothing: both stores are left
\* as they are, without that id, and the request is answered with an error;
\* no deleted id is ever stored again
C29_NoResurrection == [](C9_Gone) /\ [][C29_Step]_vars

\* a get-by-id or download that read its record, lost it to a delete, and
\* was answered 500 by its save
C29_Witness ==
  /\ lastResp.op \in {"get", "download"}
  /\ lastResp.status = 500
  /\ lastResp.id \in DeletedIds
  /\ lastResp.id \notin AllIds

\* a presigned-url handler at its save() whose document fails the schema of
\* its model or carries a key held by a stored record of its kind
C30_PersistFails(s) ==
  /\ inflight[s].op = "presign"
  /\ \/ ~(IF inflight[s].coll = "sound"
          THEN soundDataSchema(inflight[s].doc)
          ELSE photoDataSchema(inflight[s].doc))
     \/ inflight[s].doc.s3Key \in Keys(Coll(inflight[s].coll))

C30_Step ==
  \A s \in Slots :
    (C30_PersistFails(s) /\ inflight'[s] = Idle)
    => /\ lastResp'.op = "presign"
       /\ lastResp'.status = 500
       /\ DOMAIN lastResp' \cap {"uploadUrl", "fileUrl", "s3Key", "dataId"}
            = {}
       /\ UNCHANGED <<SoundData, PhotoData>>
       /\ inflight[s].doc._id \notin AllIds'

\* C30: a presigned-url request whose save() fails (schema validation or
\* duplicate s3Key) is answered with an error that carries no upload URL,
\* key or record id; no record exists for the request and every stored
\* record is unchanged
C30_PersistFailureLeavesNothing == [][C30_Step]_vars

\* a presigned-url request answered 500 after its document was constructed,
\* while the record of an earlier request is stored
C30_Witness ==
  /\ lastResp = [op |-> "presign", status |-> 500]
  /\ nextId = 3
  /\ Cardinality(AllIds) = 1
  /\ \A s \in Slots : inflight[s] = Idle

====
